---- MODULE Spec2Model ----
(***************************************************************************)
(* Billing and payment engine of payment-demo: invoice totalling, payment  *)
(* application and receipt allocation, with the process-wide reference     *)
(* number counters.                                                        *)
(*                                                                         *)
(* Numbers.  A JavaScript number is a record [k, v]: k = "fin" with v the  *)
(* value in units of 1/Den (Den = 100 * SubCent, so one cent is SubCent    *)
(* units and amounts finer than a cent exist), or k = "nan", "inf",        *)
(* "-inf".  Arithmetic on finite values is exact rational arithmetic; the  *)
(* binary representation error of IEEE doubles is not modelled.  Fields of *)
(* an invoice are always finite (the validators reject everything else)    *)
(* and are held as plain integers in the same units.                       *)
(***************************************************************************)
EXTENDS Integers, Sequences, FiniteSets

VARIABLES
    invoiceCounter,   \* generators.ts: let invoiceCounter
    receiptCounter,   \* generators.ts: let receiptCounter
    paymentCounter,   \* generators.ts: let paymentCounter
    invoice,          \* the invoice object the caller holds (NoInvoice before the first)
    payment,          \* the payment record of the caller's last processPayment result
    payments,         \* [status, amount] of the payments collected for the held invoice
    returned          \* the last call: its arguments and what it returned or threw

vars == <<invoiceCounter, receiptCounter, paymentCounter, invoice, payment, payments, returned>>

----------------------------------------------------------------------------
(* Bounds of the model *)

SubCent == 4        \* units per cent: the resolution of amounts below one cent
MaxItems == 3       \* longest item list drawn for an invoice
MaxPayments == 2    \* payment references issued before the model stops paying
MaxReceipts == 2    \* receipt numbers issued before the model stops issuing receipts
MaxNumbers == 2     \* numbers of one kind issued in a row by the number runs
HighStart == 9998   \* numbers of a kind already issued when a long number run is taken up

\* The limits of the configuration, in cents.  The program reads them from the
\* environment (parseNumber(process.env.X, default), defaults 1000000, 1000000 and
\* 500000); here they are set to a few cents, so that amounts on both sides of each
\* limit are drawn.
MAX_PAYMENT_AMOUNT == 12
MAX_LINE_ITEM_AMOUNT == 6
MAX_INVOICE_AMOUNT == 12

\* minPaymentAmount, in cents: the default 0.01
MIN_PAYMENT_AMOUNT == 1

----------------------------------------------------------------------------
(* JavaScript numbers *)

Den == 100 * SubCent
Cents(c) == c * SubCent

Fin(v) == [k |-> "fin", v |-> v]
NaN == [k |-> "nan", v |-> 0]
Infinity == [k |-> "inf", v |-> 0]
NegInfinity == [k |-> "-inf", v |-> 0]

isNaN(x) == x.k = "nan"
isFinite(x) == x.k = "fin"

\* Math.round(num/den), den > 0: the nearest integer, a tie going up
MathRound(num, den) == (2 * num + den) \div (2 * den)

\* roundToTwoDecimals(value) for value = num/den: Math.round(value * 100) / 100
roundToTwoDecimals(num, den) == Cents(MathRound(100 * num, den))

\* roundToTwoDecimals of a JavaScript number: NaN and the infinities round to themselves
roundNumber(x) == IF isFinite(x) THEN Fin(roundToTwoDecimals(x.v, Den)) ELSE x

\* A slip: the tax cut off after two decimals instead of rounded
calculateTaxAmountTruncated(amount, taxRate) == Cents((100 * amount * taxRate) \div (Den * Den))

\* calculateTaxAmount(amount, taxRate) = roundToTwoDecimals(amount * taxRate)
calculateTaxAmount(amount, taxRate) == roundToTwoDecimals(amount * taxRate, Den * Den)

RECURSIVE SumSeq(_)
SumSeq(s) == IF s = <<>> THEN 0 ELSE s[1] + SumSeq(Tail(s))

\* sumWithRounding(values) = roundToTwoDecimals(values.reduce(+, 0))
sumWithRounding(values) == roundToTwoDecimals(SumSeq(values), Den)

----------------------------------------------------------------------------
(* Errors and validation *)

NoError == [name |-> "", message |-> ""]
ValidationError(message) == [name |-> "ValidationError", message |-> message]
PaymentError(message) == [name |-> "PaymentError", message |-> message]
Error(message) == [name |-> "Error", message |-> message]
TypeError(message) == [name |-> "TypeError", message |-> message]

Ret(v) == [threw |-> FALSE, value |-> v]
Throw(e) == [threw |-> TRUE, error |-> e]

\* The first error of a sequence of checks run in order, NoError when all pass
RECURSIVE FirstError(_)
FirstError(checks) ==
    IF checks = <<>> THEN NoError
    ELSE IF checks[1] # NoError THEN checks[1]
    ELSE FirstError(Tail(checks))

validatePositiveNumber(value, fieldName) ==
    IF isNaN(value) THEN ValidationError(fieldName \o " must be a valid number")
    ELSE IF value.k = "-inf" \/ (value.k = "fin" /\ value.v <= 0)
        THEN ValidationError(fieldName \o " must be positive")
    ELSE IF ~isFinite(value) THEN ValidationError(fieldName \o " must be a finite number")
    ELSE NoError

validateNonNegativeNumber(value, fieldName) ==
    IF isNaN(value) THEN ValidationError(fieldName \o " must be a valid number")
    ELSE IF value.k = "-inf" \/ (value.k = "fin" /\ value.v < 0)
        THEN ValidationError(fieldName \o " cannot be negative")
    ELSE IF ~isFinite(value) THEN ValidationError(fieldName \o " must be a finite number")
    ELSE NoError

\* value.trim() over the strings of the model
Trim(s) == IF s \in {"", " ", "  "} THEN "" ELSE s

validateNonEmptyString(value, fieldName) ==
    IF Len(Trim(value)) = 0 THEN ValidationError(fieldName \o " cannot be empty")
    ELSE NoError

validateNonEmptyArray(value, fieldName) ==
    IF Len(value) = 0 THEN ValidationError(fieldName \o " cannot be empty")
    ELSE NoError

(* Dates: a Date of a calendar day, the Date whose time is NaN, and a value that is
   no Date object at all. *)
ValidDate == "2023-12-07"
InvalidDate == "Invalid Date"
NotADate == "null"

validateDate(value, fieldName) ==
    IF value = NotADate THEN ValidationError(fieldName \o " must be a Date object")
    ELSE IF value = InvalidDate THEN ValidationError(fieldName \o " must be a valid date")
    ELSE NoError

PaymentMethod == {"CASH", "BANK_TRANSFER", "CREDIT_CARD", "DEBIT_CARD", "CHECK"}

validatePaymentMethod(value) ==
    IF value \notin PaymentMethod
        THEN ValidationError("Invalid payment method. Must be one of: CASH, BANK_TRANSFER, CREDIT_CARD, DEBIT_CARD, CHECK")
    ELSE NoError

validateTaxRate(taxRate) ==
    IF validateNonNegativeNumber(taxRate, "Tax rate") # NoError
        THEN validateNonNegativeNumber(taxRate, "Tax rate")
    ELSE IF taxRate.v > Den THEN ValidationError("Tax rate must be between 0 and 1 (e.g., 0.07 for 7%)")
    ELSE NoError

getMinPaymentAmount == Cents(MIN_PAYMENT_AMOUNT)
getMaxPaymentAmount == Cents(MAX_PAYMENT_AMOUNT)
getMaxLineItemAmount == Cents(MAX_LINE_ITEM_AMOUNT)
getMaxInvoiceAmount == Cents(MAX_INVOICE_AMOUNT)

\* amount < minAmount and amount > maxAmount, both false for NaN
validatePaymentAmountLimits(amount) ==
    IF amount.k = "-inf" \/ (amount.k = "fin" /\ amount.v < getMinPaymentAmount)
        THEN ValidationError("Payment amount must be at least the minimum")
    ELSE IF amount.k = "inf" \/ (amount.k = "fin" /\ amount.v > getMaxPaymentAmount)
        THEN ValidationError("Payment amount cannot exceed the maximum")
    ELSE NoError

validateInvoiceAmount(amount) ==
    IF amount > getMaxInvoiceAmount THEN ValidationError("Invoice amount cannot exceed the maximum")
    ELSE NoError

\* A slip: an amount equal to the maximum refused
validateLineItemAmountBelow(amount) ==
    IF amount >= getMaxLineItemAmount THEN ValidationError("Line item amount cannot exceed the maximum")
    ELSE NoError

validateLineItemAmount(amount) ==
    IF amount > getMaxLineItemAmount THEN ValidationError("Line item amount cannot exceed the maximum")
    ELSE NoError

----------------------------------------------------------------------------
(* Identifiers and reference numbers *)

DigitChar == <<"0", "1", "2", "3", "4", "5", "6", "7", "8", "9">>

\* String(n) for a natural number
RECURSIVE ToString(_)
ToString(n) == IF n < 10 THEN DigitChar[n + 1] ELSE ToString(n \div 10) \o DigitChar[(n % 10) + 1]

\* s.padStart(targetLength, padString) for a one-character padString
RECURSIVE padStart(_, _, _)
padStart(s, targetLength, padString) ==
    IF Len(s) >= targetLength THEN s ELSE padStart(padString \o s, targetLength, padString)

Uuid(n) == "uuid-" \o ToString(n)

\* generateId(): uuidv4, a name that no value still held carries
generateId(used) ==
    Uuid(CHOOSE n \in 1..(Cardinality(used) + 1) :
            Uuid(n) \notin used /\ \A m \in 1..(n - 1) : Uuid(m) \in used)

\* A new object: a reference that no object still held has
NewRef(live) ==
    CHOOSE n \in 1..(Cardinality(live) + 1) : n \notin live /\ \A m \in 1..(n - 1) : m \in live

\* formatDateForReference(date): getFullYear of a value that is no Date is a TypeError
formatDateForReference(date) ==
    IF date = NotADate THEN Throw(TypeError("date.getFullYear is not a function"))
    ELSE IF date = InvalidDate THEN Ret("NaNNaNNaN")
    ELSE Ret("20231207")

\* The three generators: the counter is advanced before the date is formatted
generateNumber(prefix, date, counter) ==
    [counter |-> counter + 1,
     out |-> IF formatDateForReference(date).threw THEN formatDateForReference(date)
             ELSE Ret(prefix \o "-" \o formatDateForReference(date).value \o "-"
                             \o padStart(ToString(counter + 1), 4, "0"))]

generateInvoiceNumber(date, counter) == generateNumber("INV", date, counter)
generateReceiptNumber(date, counter) == generateNumber("RCP", date, counter)
generatePaymentReference(date, counter) == generateNumber("PAY", date, counter)

----------------------------------------------------------------------------
(* Invoice service *)

InvoiceStatus == {"PENDING", "PARTIALLY_PAID", "PAID", "OVERPAID", "CANCELLED"}

NoInvoice ==
    [ref |-> 0, id |-> "", invoiceNumber |-> "", invoiceDate |-> "", items |-> <<>>,
     subtotal |-> 0, totalAmount |-> 0, totalTax |-> 0, outstandingAmount |-> 0,
     status |-> "NONE"]

\* roundToTwoDecimals(item.quantity * item.unitPrice)
lineSubtotalOf(item) == roundToTwoDecimals(item.quantity.v * item.unitPrice.v, Den * Den)

\* A slip: the quantity not checked
itemErrorAnyQuantity(item) ==
    FirstError(<<validateNonEmptyString(item.description, "Item description"),
                 validateNonNegativeNumber(item.unitPrice, "Item unit price"),
                 validateLineItemAmount(lineSubtotalOf(item))>>)

\* The checks of one item, in the order of the map callback
itemError(item) ==
    FirstError(<<validateNonEmptyString(item.description, "Item description"),
                 validatePositiveNumber(item.quantity, "Item quantity"),
                 validateNonNegativeNumber(item.unitPrice, "Item unit price"),
                 validateLineItemAmount(lineSubtotalOf(item))>>)

\* A slip: the tax added to the line total twice
processItemTaxTwice(item, taxRate, id) ==
    [id |-> id, description |-> item.description, quantity |-> item.quantity.v,
     unitPrice |-> item.unitPrice.v,
     lineTotal |-> roundToTwoDecimals(
         lineSubtotalOf(item) + 2 * calculateTaxAmount(lineSubtotalOf(item), taxRate.v), Den),
     taxRate |-> taxRate.v,
     taxAmount |-> calculateTaxAmount(lineSubtotalOf(item), taxRate.v)]

\* The InvoiceItem the map callback returns for a valid item
processItem(item, taxRate, id) ==
    [id |-> id, description |-> item.description, quantity |-> item.quantity.v,
     unitPrice |-> item.unitPrice.v,
     lineTotal |-> roundToTwoDecimals(
         lineSubtotalOf(item) + calculateTaxAmount(lineSubtotalOf(item), taxRate.v), Den),
     taxRate |-> taxRate.v,
     taxAmount |-> calculateTaxAmount(lineSubtotalOf(item), taxRate.v)]

RECURSIVE processItems(_, _, _)
processItems(items, taxRate, used) ==
    IF items = <<>> THEN <<>>
    ELSE <<processItem(items[1], taxRate, generateId(used))>>
         \o processItems(Tail(items), taxRate, used \cup {generateId(used)})

\* A slip: the total taken as the subtotal alone
totalsWithoutTax(processedItems) ==
    LET subtotal == sumWithRounding(
            [i \in 1..Len(processedItems) |->
                roundToTwoDecimals(processedItems[i].quantity * processedItems[i].unitPrice, Den * Den)])
        totalTax == sumWithRounding([i \in 1..Len(processedItems) |-> processedItems[i].taxAmount])
    IN [subtotal |-> subtotal, totalTax |-> totalTax,
        totalAmount |-> roundToTwoDecimals(subtotal, Den), items |-> processedItems]

\* The aggregates of calculateInvoiceTotal
totalsOf(processedItems) ==
    LET subtotal == sumWithRounding(
            [i \in 1..Len(processedItems) |->
                roundToTwoDecimals(processedItems[i].quantity * processedItems[i].unitPrice, Den * Den)])
        totalTax == sumWithRounding([i \in 1..Len(processedItems) |-> processedItems[i].taxAmount])
    IN [subtotal |-> subtotal, totalTax |-> totalTax,
        totalAmount |-> roundToTwoDecimals(subtotal + totalTax, Den), items |-> processedItems]

calculateInvoiceTotal(items, taxRate, used) ==
    LET early == FirstError(<<validateNonEmptyArray(items, "Invoice items"), validateTaxRate(taxRate)>>
                            \o [i \in 1..Len(items) |-> itemError(items[i])])
        totals == totalsOf(processItems(items, taxRate, used))
    IN  IF early # NoError THEN Throw(early)
        ELSE IF validateInvoiceAmount(totals.totalAmount) # NoError
            THEN Throw(validateInvoiceAmount(totals.totalAmount))
        ELSE Ret(totals)

IdsOfItems(items) == {items[i].id : i \in 1..Len(items)}

\* A slip: the invoice number generated twice, the second one kept
createInvoiceNumberedTwice(items, taxRate, invoiceDate, used, live, counter) ==
    LET totals == calculateInvoiceTotal(items, taxRate, used)
        number == generateInvoiceNumber(invoiceDate, generateInvoiceNumber(invoiceDate, counter).counter)
    IN  IF validateDate(invoiceDate, "Invoice date") # NoError
            THEN [counter |-> counter, out |-> Throw(validateDate(invoiceDate, "Invoice date"))]
        ELSE IF totals.threw THEN [counter |-> counter, out |-> totals]
        ELSE [counter |-> number.counter,
              out |-> Ret([ref |-> NewRef(live),
                           id |-> generateId(used \cup IdsOfItems(totals.value.items)),
                           invoiceNumber |-> number.out.value,
                           invoiceDate |-> invoiceDate,
                           items |-> totals.value.items,
                           subtotal |-> totals.value.subtotal,
                           totalAmount |-> totals.value.totalAmount,
                           totalTax |-> totals.value.totalTax,
                           outstandingAmount |-> totals.value.totalAmount,
                           status |-> "PENDING"])]

\* createInvoice: [counter, out], the invoice counter after the call and the outcome
createInvoice(items, taxRate, invoiceDate, used, live, counter) ==
    LET totals == calculateInvoiceTotal(items, taxRate, used)
        number == generateInvoiceNumber(invoiceDate, counter)
    IN  IF validateDate(invoiceDate, "Invoice date") # NoError
            THEN [counter |-> counter, out |-> Throw(validateDate(invoiceDate, "Invoice date"))]
        ELSE IF totals.threw THEN [counter |-> counter, out |-> totals]
        ELSE [counter |-> number.counter,
              out |-> Ret([ref |-> NewRef(live),
                           id |-> generateId(used \cup IdsOfItems(totals.value.items)),
                           invoiceNumber |-> number.out.value,
                           invoiceDate |-> invoiceDate,
                           items |-> totals.value.items,
                           subtotal |-> totals.value.subtotal,
                           totalAmount |-> totals.value.totalAmount,
                           totalTax |-> totals.value.totalTax,
                           outstandingAmount |-> totals.value.totalAmount,
                           status |-> "PENDING"])]

\* A slip: an outstanding amount below zero taken as paid
deriveStatusNeverOverpaid(outstandingAmount, totalAmount) ==
    IF outstandingAmount > 0 /\ outstandingAmount < totalAmount THEN "PARTIALLY_PAID"
    ELSE IF outstandingAmount <= 0 THEN "PAID"
    ELSE "PENDING"

\* The transition function of updateInvoiceStatus
deriveStatus(outstandingAmount, totalAmount) ==
    IF outstandingAmount > 0 /\ outstandingAmount < totalAmount THEN "PARTIALLY_PAID"
    ELSE IF outstandingAmount = 0 THEN "PAID"
    ELSE IF outstandingAmount < 0 THEN "OVERPAID"
    ELSE "PENDING"

\* A slip: the spread of the invoice returned with the status it came with
updateInvoiceStatusKeeping(inv, live) == [inv EXCEPT !.ref = NewRef(live)]

\* updateInvoiceStatus: a new object, the spread of the invoice with the derived status
updateInvoiceStatus(inv, live) ==
    [inv EXCEPT !.ref = NewRef(live),
                !.status = deriveStatus(inv.outstandingAmount, inv.totalAmount)]

\* cloneInvoice: a new object with the same fields (date and items copied)
cloneInvoice(inv, live) == [inv EXCEPT !.ref = NewRef(live)]

----------------------------------------------------------------------------
(* Payment service *)

NoPayment ==
    [id |-> "", invoiceId |-> "", paymentMethod |-> "", amount |-> Fin(0),
     paymentDate |-> "", referenceNumber |-> "", status |-> "NONE"]

\* A slip: the outstanding amount written to the argument itself, no clone taken
applyPaymentInPlace(inv, paymentAmount, live) ==
    LET updatedInvoice ==
            [inv EXCEPT !.outstandingAmount =
                roundToTwoDecimals(inv.outstandingAmount - paymentAmount.v, Den)]
    IN  [argAfter |-> updatedInvoice,
         invoice |-> updateInvoiceStatus(updatedInvoice, live \cup {updatedInvoice.ref})]

\* Lines 209-218: clone, write the rounded outstanding amount to the clone, derive the
\* status.  argAfter is the argument object as the call leaves it.
applyPayment(inv, paymentAmount, live) ==
    LET updatedInvoice ==
            [cloneInvoice(inv, live) EXCEPT !.outstandingAmount =
                roundToTwoDecimals(inv.outstandingAmount - paymentAmount.v, Den)]
    IN  [argAfter |-> inv,
         invoice |-> updateInvoiceStatus(updatedInvoice, live \cup {updatedInvoice.ref})]

\* A slip: the amount not checked against the configured limits
paymentErrorUnlimited(inv, paymentAmount, paymentMethod, paymentDate) ==
    FirstError(<<validatePositiveNumber(paymentAmount, "Payment amount"),
                 validatePaymentMethod(paymentMethod),
                 validateDate(paymentDate, "Payment date"),
                 validateNonEmptyString(inv.id, "Invoice ID"),
                 IF inv.status = "CANCELLED"
                    THEN PaymentError("Cannot process payment for a cancelled invoice")
                    ELSE NoError>>)

\* What the try block throws, NoError when it runs to its return
paymentError(inv, paymentAmount, paymentMethod, paymentDate) ==
    FirstError(<<validatePositiveNumber(paymentAmount, "Payment amount"),
                 validatePaymentAmountLimits(paymentAmount),
                 validatePaymentMethod(paymentMethod),
                 validateDate(paymentDate, "Payment date"),
                 validateNonEmptyString(inv.id, "Invoice ID"),
                 IF inv.status = "CANCELLED"
                    THEN PaymentError("Cannot process payment for a cancelled invoice")
                    ELSE NoError>>)

\* processPayment: [counter, argAfter, out].  Both branches build the payment record with
\* generateId() and generatePaymentReference(paymentDate); in the catch block nothing
\* catches what generatePaymentReference throws.
processPayment(inv, paymentAmount, paymentMethod, paymentDate, used, live, counter) ==
    LET err == paymentError(inv, paymentAmount, paymentMethod, paymentDate)
        ref == generatePaymentReference(paymentDate, counter)
        record == [id |-> generateId(used), invoiceId |-> inv.id,
                   paymentMethod |-> paymentMethod, amount |-> paymentAmount,
                   paymentDate |-> paymentDate,
                   referenceNumber |-> IF ref.out.threw THEN "" ELSE ref.out.value,
                   status |-> IF err = NoError THEN "COMPLETED" ELSE "FAILED"]
        applied == applyPayment(inv, paymentAmount, live)
    IN  IF err = NoError
            THEN [counter |-> ref.counter, argAfter |-> applied.argAfter,
                  out |-> Ret([success |-> TRUE, payment |-> record,
                               invoice |-> applied.invoice, error |-> ""])]
        ELSE IF ref.out.threw
            THEN [counter |-> ref.counter, argAfter |-> inv, out |-> ref.out]
        ELSE [counter |-> ref.counter, argAfter |-> inv,
              out |-> Ret([success |-> FALSE, payment |-> record,
                           invoice |-> inv, error |-> err.message])]

\* A slip: the check against the configured limits left out
validatePaymentAmountUnlimited(inv, paymentAmount) ==
    IF validatePositiveNumber(paymentAmount, "Payment amount") # NoError
        THEN [valid |-> FALSE,
              message |-> <<validatePositiveNumber(paymentAmount, "Payment amount").message>>]
    ELSE IF paymentAmount.v > inv.outstandingAmount
        THEN [valid |-> TRUE,
              message |-> <<"Payment amount (", paymentAmount.v, ") exceeds outstanding amount (",
                            inv.outstandingAmount, "). This will result in an overpayment of ",
                            roundToTwoDecimals(paymentAmount.v - inv.outstandingAmount, Den),
                            ".">>]
    ELSE [valid |-> TRUE, message |-> <<>>]

\* validatePaymentAmount: [valid, message], the message as the parts of its template,
\* <<>> when the result carries no message
validatePaymentAmount(inv, paymentAmount) ==
    IF validatePositiveNumber(paymentAmount, "Payment amount") # NoError
        THEN [valid |-> FALSE,
              message |-> <<validatePositiveNumber(paymentAmount, "Payment amount").message>>]
    ELSE IF validatePaymentAmountLimits(paymentAmount) # NoError
        THEN [valid |-> FALSE,
              message |-> <<validatePaymentAmountLimits(paymentAmount).message>>]
    ELSE IF paymentAmount.v > inv.outstandingAmount
        THEN [valid |-> TRUE,
              message |-> <<"Payment amount (", paymentAmount.v, ") exceeds outstanding amount (",
                            inv.outstandingAmount, "). This will result in an overpayment of ",
                            roundToTwoDecimals(paymentAmount.v - inv.outstandingAmount, Den),
                            ".">>]
    ELSE [valid |-> TRUE, message |-> <<>>]

\* A slip: the filter on the status left out
calculateTotalPaidOfAll(paid) ==
    roundToTwoDecimals(SumSeq([i \in 1..Len(paid) |-> paid[i].amount.v]), Den)

\* calculateTotalPaid: the rounded sum of the amounts of the COMPLETED payments
calculateTotalPaid(paid) ==
    LET completedPayments == SelectSeq(paid, LAMBDA p : p.status = "COMPLETED")
    IN  roundToTwoDecimals(
            SumSeq([i \in 1..Len(completedPayments) |-> completedPayments[i].amount.v]), Den)

----------------------------------------------------------------------------
(* Receipt service *)

\* roundToTwoDecimals(lineTotal * allocationRatio), allocationRatio = paymentAmount / totalAmount
\* in JavaScript arithmetic: x / 0 is an infinity, 0 * infinity is NaN
proportional(lineTotal, paymentAmount, totalAmount) ==
    IF isNaN(paymentAmount) THEN NaN
    ELSE IF paymentAmount.k = "-inf" \/ (isFinite(paymentAmount) /\ totalAmount = 0)
        THEN (IF lineTotal = 0 THEN NaN ELSE NegInfinity)
    ELSE Fin(roundToTwoDecimals(lineTotal * paymentAmount.v, Den * totalAmount))

\* a + b and a - b of JavaScript numbers
jsAdd(a, b) ==
    IF isNaN(a) \/ isNaN(b) THEN NaN
    ELSE IF isFinite(a) /\ isFinite(b) THEN Fin(a.v + b.v)
    ELSE IF isFinite(a) THEN b
    ELSE IF isFinite(b) \/ a.k = b.k THEN a
    ELSE NaN

jsNeg(a) == IF isFinite(a) THEN Fin(0 - a.v) ELSE IF a.k = "inf" THEN NegInfinity
            ELSE IF a.k = "-inf" THEN Infinity ELSE NaN

jsSub(a, b) == jsAdd(a, jsNeg(b))

RECURSIVE jsSum(_)
jsSum(s) == IF s = <<>> THEN Fin(0) ELSE jsAdd(s[1], jsSum(Tail(s)))

\* paymentAmount >= invoice.totalAmount
coversInvoice(paymentAmount, totalAmount) ==
    paymentAmount.k = "inf" \/ (isFinite(paymentAmount) /\ paymentAmount.v >= totalAmount)

\* A slip: the branch for a payment that covers the invoice left out
allocateProportionally(paymentAmount, inv) ==
    [i \in 1..Len(inv.items) |->
        [description |-> inv.items[i].description,
         amountAllocated |->
            IF i = Len(inv.items)
                THEN roundNumber(jsSub(paymentAmount,
                        jsSum([j \in 1..(i - 1) |->
                            proportional(inv.items[j].lineTotal, paymentAmount, inv.totalAmount)])))
            ELSE proportional(inv.items[i].lineTotal, paymentAmount, inv.totalAmount)]]

allocatePaymentToItems(paymentAmount, inv) ==
    IF coversInvoice(paymentAmount, inv.totalAmount)
        THEN [i \in 1..Len(inv.items) |->
                [description |-> inv.items[i].description,
                 amountAllocated |-> Fin(inv.items[i].lineTotal)]]
    ELSE [i \in 1..Len(inv.items) |->
            [description |-> inv.items[i].description,
             amountAllocated |->
                IF i = Len(inv.items)
                    THEN roundNumber(jsSub(paymentAmount,
                            jsSum([j \in 1..(i - 1) |->
                                proportional(inv.items[j].lineTotal, paymentAmount, inv.totalAmount)])))
                ELSE proportional(inv.items[i].lineTotal, paymentAmount, inv.totalAmount)]]

\* A slip: the comparison of the payment's invoice id with the invoice's id left out
receiptErrorUnmatched(pay, inv) ==
    FirstError(<<validateNonEmptyString(pay.id, "Payment ID"),
                 validateNonEmptyString(inv.id, "Invoice ID"),
                 validateDate(pay.paymentDate, "Payment date")>>)

\* What generateReceipt throws before it allocates, NoError when it goes on
receiptError(pay, inv) ==
    FirstError(<<validateNonEmptyString(pay.id, "Payment ID"),
                 validateNonEmptyString(inv.id, "Invoice ID"),
                 validateDate(pay.paymentDate, "Payment date"),
                 IF pay.invoiceId # inv.id
                    THEN Error("Payment invoice ID does not match provided invoice")
                    ELSE NoError>>)

\* generateReceipt: [counter, out]
generateReceipt(pay, inv, used, counter) ==
    LET number == generateReceiptNumber(pay.paymentDate, counter)
    IN  IF receiptError(pay, inv) # NoError
            THEN [counter |-> counter, out |-> Throw(receiptError(pay, inv))]
        ELSE [counter |-> number.counter,
              out |-> Ret([id |-> generateId(used),
                           paymentId |-> pay.id,
                           invoiceId |-> inv.id,
                           receiptNumber |-> number.out.value,
                           receiptDate |-> pay.paymentDate,
                           totalPaid |-> pay.amount,
                           remainingBalance |-> inv.outstandingAmount,
                           paymentMethod |-> pay.paymentMethod,
                           paymentReference |-> pay.referenceNumber,
                           items |-> allocatePaymentToItems(pay.amount, inv)])]

----------------------------------------------------------------------------
(* Inputs *)

One == Fin(Den)
Item(description, quantity, unitPrice) ==
    [description |-> description, quantity |-> quantity, unitPrice |-> unitPrice]

FreeItem == Item("Free Item", One, Fin(0))
PennyItem == Item("Item 1", One, Fin(Cents(1)))
ThreeItem == Item("Item 2", One, Fin(Cents(3)))
HourlyItem == Item("Hourly Rate", Fin(Den + Den \div 2), Fin(Cents(1)))   \* 1.5 x 0.01

ValidItems == {FreeItem, PennyItem, ThreeItem, HourlyItem}

\* Items at the maximum line-item amount and a cent above it
MaxItem == Item("Max Item", One, Fin(Cents(MAX_LINE_ITEM_AMOUNT)))
OverItem == Item("Over Item", One, Fin(Cents(MAX_LINE_ITEM_AMOUNT + 1)))

\* Item lists at and over the limits of a line item and of an invoice
LimitItemLists ==
    {<<MaxItem>>, <<MaxItem, MaxItem>>, <<MaxItem, MaxItem, PennyItem>>, <<OverItem>>,
     <<PennyItem, OverItem>>}

InvalidItems ==
    {Item("", One, Fin(Cents(1))), Item("  ", One, Fin(Cents(1))),
     Item("Item", Fin(0), Fin(Cents(1))), Item("Item", Fin(0 - Den), Fin(Cents(1))),
     Item("Item", NaN, Fin(Cents(1))), Item("Item", One, Fin(0 - Cents(1))),
     Item("Item", One, Infinity), Item("Item", One, Fin(Cents(MAX_LINE_ITEM_AMOUNT) + 1))}

SeqsUpTo(S, n) == UNION {[1..k -> S] : k \in 0..n}

\* A list of three items of a cent each and a free item at its end
SlackItemLists == {<<PennyItem, PennyItem, PennyItem, FreeItem>>}

\* Item lists of the calculation runs: every list of valid items up to MaxItems, lists with
\* one invalid item, lists at the limits and one longer list
AllItemLists ==
    SeqsUpTo(ValidItems, MaxItems) \cup {<<b>> : b \in InvalidItems}
        \cup {<<PennyItem, b>> : b \in InvalidItems} \cup LimitItemLists \cup SlackItemLists

\* Item lists of the payment runs
CoreItemLists ==
    {<<>>, <<ThreeItem>>, <<FreeItem>>, <<PennyItem, ThreeItem>>,
     <<Item("", One, Fin(Cents(1)))>>, <<Item("Item", Fin(0), Fin(Cents(1)))>>}

\* Item lists of the number runs
NumberedItemLists == {<<>>, <<ThreeItem>>}

TaxRateInputs == {Fin(0), Fin(Den \div 2), Fin(0 - 1), Fin(Den + 1), NaN}

DateInputs == {ValidDate, InvalidDate, NotADate}

MethodInputs == {"CASH", "BITCOIN"}

\* Amounts of the payment runs: not numbers, non-positive, below the minimum, whole cents,
\* a cent and a half, the maximum and just above it
AmountInputs ==
    {NaN, Infinity, Fin(0 - Cents(1)), Fin(0), Fin(SubCent \div 2),
     Fin(Cents(1)), Fin(Cents(1) + SubCent \div 2), Fin(Cents(2)),
     Fin(Cents(MAX_PAYMENT_AMOUNT)), Fin(Cents(MAX_PAYMENT_AMOUNT) + 1)}

\* A call of processPayment: the invoice passed (the one held, or a copy of it with the
\* id blanked) and the three other arguments
Call(blank, paymentAmount, paymentMethod, paymentDate) ==
    [blank |-> blank, paymentAmount |-> paymentAmount,
     paymentMethod |-> paymentMethod, paymentDate |-> paymentDate]

\* Calls of the payment runs: every amount with a valid method and date on the held
\* invoice, and every combination of invoice, method and date with a good and a bad amount
PaymentCalls ==
    {Call(FALSE, a, "CASH", ValidDate) : a \in AmountInputs}
        \cup {Call(b, a, m, d) : b \in BOOLEAN, a \in {Fin(Cents(1)), Fin(0)},
                                 m \in MethodInputs, d \in DateInputs}

\* Calls of the calculation runs: every amount from one cent to six cents in steps of
\* half a cent, the maximum, and amounts that fail validation; a call with an invalid
\* date and a call on an invoice without id
CalcPaymentCalls ==
    {Call(FALSE, a, "CASH", ValidDate) :
        a \in {Fin(u * (SubCent \div 2)) : u \in 2..12}
                \cup {Fin(Cents(MAX_PAYMENT_AMOUNT)), Fin(0 - Cents(1)), Fin(0),
                      NaN, Infinity, NegInfinity}}
        \cup {Call(FALSE, Fin(Cents(1)), "CASH", InvalidDate),
              Call(TRUE, Fin(Cents(1)), "CASH", ValidDate)}

\* Calls of the query runs: the amounts of the payment runs, accepted and rejected, and
\* three cents
QueryPaymentCalls ==
    {Call(FALSE, a, "CASH", ValidDate) : a \in AmountInputs \cup {Fin(Cents(3))}}

\* Payments of another status than processPayment gives, put after the collected ones
ExtraPayments ==
    {<<>>,
     <<[status |-> "PENDING", amount |-> Fin(Cents(1))]>>,
     <<[status |-> "REFUNDED", amount |-> Fin(Cents(2))]>>,
     <<[status |-> "FAILED", amount |-> Fin(Cents(1))], [status |-> "PENDING", amount |-> Fin(Cents(3))]>>}

\* The invoice the caller passes: the one it holds, or a copy of it with the id blanked
BlankId(inv) == [inv EXCEPT !.id = "", !.ref = NewRef({inv.ref})]

\* Another invoice than the one held: an object of its own with an id of its own
OtherInvoice(inv, used) == [inv EXCEPT !.id = generateId(used), !.ref = NewRef({inv.ref})]

\* The arguments the caller passes to generateReceipt: its payment with its invoice, with
\* an invoice without id, with another invoice, and a payment without id with its invoice
ReceiptArgs(pay, inv, used) ==
    {[payment |-> pay, invoice |-> inv],
     [payment |-> pay, invoice |-> BlankId(inv)],
     [payment |-> pay, invoice |-> OtherInvoice(inv, used)],
     [payment |-> [pay EXCEPT !.id = ""], invoice |-> inv]}

----------------------------------------------------------------------------
(* State *)

LiveIds == (IdsOfItems(invoice.items) \cup {invoice.id, payment.id, payment.invoiceId}) \ {""}
LiveRefs == {invoice.ref}

NoResult == [success |-> FALSE, payment |-> NoPayment, invoice |-> NoInvoice, error |-> ""]

Init ==
    /\ invoiceCounter = 0
    /\ receiptCounter = 0
    /\ paymentCounter = 0
    /\ invoice = NoInvoice
    /\ payment = NoPayment
    /\ payments = <<>>
    /\ returned = [op |-> "none", threw |-> FALSE]

\* const totals = calculateInvoiceTotal(items, taxRate), before any invoice is created
CalculateInvoiceTotal(itemLists) ==
    /\ invoice = NoInvoice
    /\ returned.op = "none"
    /\ \E items \in itemLists, taxRate \in TaxRateInputs :
       \E r \in {calculateInvoiceTotal(items, taxRate, LiveIds)} :
            /\ returned' = [op |-> "calculateInvoiceTotal",
                            args |-> [items |-> items, taxRate |-> taxRate],
                            threw |-> r.threw,
                            error |-> IF r.threw THEN r.error ELSE NoError,
                            value |-> IF r.threw THEN <<>> ELSE r.value]
            /\ UNCHANGED <<invoiceCounter, receiptCounter, paymentCounter, invoice, payment, payments>>

\* invoice = createInvoice(items, taxRate, invoiceDate): the caller starts on a new invoice
CreateInvoice(itemLists) ==
    \E items \in itemLists, taxRate \in TaxRateInputs, invoiceDate \in DateInputs :
    \E r \in {createInvoice(items, taxRate, invoiceDate, LiveIds, LiveRefs, invoiceCounter)} :
            /\ invoiceCounter' = r.counter
            /\ invoice' = IF r.out.threw THEN invoice ELSE r.out.value
            /\ payments' = IF r.out.threw THEN payments ELSE <<>>
            /\ returned' = [op |-> "createInvoice",
                            args |-> [items |-> items, taxRate |-> taxRate, invoiceDate |-> invoiceDate],
                            threw |-> r.out.threw,
                            error |-> IF r.out.threw THEN r.out.error ELSE NoError,
                            value |-> IF r.out.threw THEN NoInvoice ELSE r.out.value]
            /\ UNCHANGED <<receiptCounter, paymentCounter, payment>>

\* result = processPayment(arg, amount, method, date); invoice = result.invoice when the
\* invoice passed is the one held
ProcessPayment(calls, maxPayments) ==
    /\ invoice # NoInvoice
    /\ paymentCounter < maxPayments
    /\ \E call \in calls :
       \E arg \in {IF call.blank THEN BlankId(invoice) ELSE invoice} :
       \E r \in {processPayment(arg, call.paymentAmount, call.paymentMethod, call.paymentDate,
                                LiveIds, LiveRefs \cup {arg.ref}, paymentCounter)} :
            /\ paymentCounter' = r.counter
            /\ returned' = [op |-> "processPayment",
                            args |-> [invoice |-> arg, paymentAmount |-> call.paymentAmount,
                                      paymentMethod |-> call.paymentMethod,
                                      paymentDate |-> call.paymentDate],
                            argAfter |-> r.argAfter,
                            threw |-> r.out.threw,
                            error |-> IF r.out.threw THEN r.out.error ELSE NoError,
                            value |-> IF r.out.threw THEN NoResult ELSE r.out.value]
            /\ invoice' = IF call.blank THEN invoice
                          ELSE IF r.out.threw THEN r.argAfter ELSE r.out.value.invoice
            /\ payment' = IF r.out.threw THEN payment ELSE r.out.value.payment
            /\ payments' = IF r.out.threw \/ call.blank THEN payments
                           ELSE Append(payments, [status |-> r.out.value.payment.status,
                                                  amount |-> r.out.value.payment.amount])
            /\ UNCHANGED <<invoiceCounter, receiptCounter>>

\* second = processPayment(inv, ...) with the invoice value inv the call before was given,
\* not the invoice that call returned: no call sees the result of the other.  The caller
\* keeps the invoice of the later result and collects both payments.
ProcessPaymentOnSameInvoice(calls, maxPayments) ==
    /\ returned.op = "processPayment"
    /\ ~returned.threw
    /\ returned.value.success
    /\ returned.value.invoice = invoice
    /\ paymentCounter < maxPayments
    /\ \E call \in calls :
       \E arg \in {returned.args.invoice} :
       \E r \in {processPayment(arg, call.paymentAmount, call.paymentMethod, call.paymentDate,
                                LiveIds, LiveRefs \cup {arg.ref}, paymentCounter)} :
            /\ paymentCounter' = r.counter
            /\ returned' = [op |-> "processPayment",
                            args |-> [invoice |-> arg, paymentAmount |-> call.paymentAmount,
                                      paymentMethod |-> call.paymentMethod,
                                      paymentDate |-> call.paymentDate],
                            argAfter |-> r.argAfter,
                            threw |-> r.out.threw,
                            error |-> IF r.out.threw THEN r.out.error ELSE NoError,
                            value |-> IF r.out.threw THEN NoResult ELSE r.out.value,
                            first |-> returned.value]
            /\ invoice' = IF r.out.threw \/ ~r.out.value.success THEN invoice
                          ELSE r.out.value.invoice
            /\ payment' = IF r.out.threw THEN payment ELSE r.out.value.payment
            /\ payments' = IF r.out.threw THEN payments
                           ELSE Append(payments, [status |-> r.out.value.payment.status,
                                                  amount |-> r.out.value.payment.amount])
            /\ UNCHANGED <<invoiceCounter, receiptCounter>>

\* receipt = generateReceipt(payment, invoice) and its variants
GenerateReceipt ==
    /\ invoice # NoInvoice
    /\ payment # NoPayment
    /\ receiptCounter < MaxReceipts
    /\ \E args \in ReceiptArgs(payment, invoice, LiveIds) :
       \E r \in {generateReceipt(args.payment, args.invoice,
                                 LiveIds \cup {args.invoice.id}, receiptCounter)} :
            /\ receiptCounter' = r.counter
            /\ returned' = [op |-> "generateReceipt",
                            args |-> args,
                            threw |-> r.out.threw,
                            error |-> IF r.out.threw THEN r.out.error ELSE NoError,
                            value |-> IF r.out.threw THEN <<>> ELSE r.out.value]
            /\ UNCHANGED <<invoiceCounter, paymentCounter, invoice, payment, payments>>

\* invoice.status = InvoiceStatus.CANCELLED: the assignment made outside the services
CancelInvoice ==
    /\ invoice # NoInvoice
    /\ invoice.status # "CANCELLED"
    /\ invoice' = [invoice EXCEPT !.status = "CANCELLED"]
    /\ UNCHANGED <<invoiceCounter, receiptCounter, paymentCounter, payment, payments, returned>>

\* const updated = updateInvoiceStatus(invoice)
UpdateInvoiceStatus ==
    /\ invoice # NoInvoice
    /\ returned' = [op |-> "updateInvoiceStatus", args |-> [invoice |-> invoice],
                    threw |-> FALSE, value |-> updateInvoiceStatus(invoice, LiveRefs)]
    /\ UNCHANGED <<invoiceCounter, receiptCounter, paymentCounter, invoice, payment, payments>>

\* const copy = cloneInvoice(invoice)
CloneInvoice ==
    /\ invoice # NoInvoice
    /\ returned' = [op |-> "cloneInvoice", args |-> [invoice |-> invoice],
                    threw |-> FALSE, value |-> cloneInvoice(invoice, LiveRefs)]
    /\ UNCHANGED <<invoiceCounter, receiptCounter, paymentCounter, invoice, payment, payments>>

\* The first call of a run is the creation of its invoice
CreateFirstInvoice(itemLists) ==
    /\ returned.op = "none"
    /\ CreateInvoice(itemLists)

\* const validation = validatePaymentAmount(invoice, amount)
ValidatePaymentAmount(amounts) ==
    /\ invoice # NoInvoice
    /\ \E paymentAmount \in amounts :
            returned' = [op |-> "validatePaymentAmount",
                         args |-> [invoice |-> invoice, paymentAmount |-> paymentAmount],
                         threw |-> FALSE,
                         value |-> validatePaymentAmount(invoice, paymentAmount)]
    /\ UNCHANGED <<invoiceCounter, receiptCounter, paymentCounter, invoice, payment, payments>>

\* const total = calculateTotalPaid([...the payments collected, ...others])
CalculateTotalPaid ==
    /\ invoice # NoInvoice
    /\ \E extra \in ExtraPayments :
            returned' = [op |-> "calculateTotalPaid",
                         args |-> [payments |-> payments \o extra],
                         threw |-> FALSE,
                         value |-> calculateTotalPaid(payments \o extra)]
    /\ UNCHANGED <<invoiceCounter, receiptCounter, paymentCounter, invoice, payment, payments>>

\* resetCounters()
ResetCounters ==
    /\ invoiceCounter' = 0
    /\ receiptCounter' = 0
    /\ paymentCounter' = 0
    /\ returned' = [op |-> "resetCounters", threw |-> FALSE]
    /\ UNCHANGED <<invoice, payment, payments>>

\* A number run issues numbers of a kind from its counter's start on, MaxNumbers of them
CanIssue(counter) ==
    \/ counter < MaxNumbers
    \/ (counter >= HighStart /\ counter < HighStart + MaxNumbers)

\* What a call of a generator leaves: the counters before it, its date, its outcome
Issued(op, date, out) ==
    [op |-> op, args |-> [date |-> date],
     before |-> [invoiceCounter |-> invoiceCounter, receiptCounter |-> receiptCounter,
                 paymentCounter |-> paymentCounter],
     threw |-> out.threw,
     error |-> IF out.threw THEN out.error ELSE NoError,
     value |-> IF out.threw THEN "" ELSE out.value]

\* generateInvoiceNumber(date)
GenerateInvoiceNumber ==
    /\ CanIssue(invoiceCounter)
    /\ \E date \in DateInputs :
       \E r \in {generateInvoiceNumber(date, invoiceCounter)} :
            /\ invoiceCounter' = r.counter
            /\ returned' = Issued("generateInvoiceNumber", date, r.out)
            /\ UNCHANGED <<receiptCounter, paymentCounter, invoice, payment, payments>>

\* generateReceiptNumber(date)
GenerateReceiptNumber ==
    /\ CanIssue(receiptCounter)
    /\ \E date \in DateInputs :
       \E r \in {generateReceiptNumber(date, receiptCounter)} :
            /\ receiptCounter' = r.counter
            /\ returned' = Issued("generateReceiptNumber", date, r.out)
            /\ UNCHANGED <<invoiceCounter, paymentCounter, invoice, payment, payments>>

\* generatePaymentReference(date)
GeneratePaymentReference ==
    /\ CanIssue(paymentCounter)
    /\ \E date \in DateInputs :
       \E r \in {generatePaymentReference(date, paymentCounter)} :
            /\ paymentCounter' = r.counter
            /\ returned' = Issued("generatePaymentReference", date, r.out)
            /\ UNCHANGED <<invoiceCounter, receiptCounter, invoice, payment, payments>>

\* createInvoice in a number run
CreateNumberedInvoice ==
    /\ CanIssue(invoiceCounter)
    /\ CreateInvoice(NumberedItemLists)

\* The payment runs: few invoices, payments in sequence with every kind of input
Next ==
    \/ CreateFirstInvoice(CoreItemLists)
    \/ ProcessPayment(PaymentCalls, MaxPayments)
    \/ CancelInvoice
    \/ UpdateInvoiceStatus
    \/ CloneInvoice

Spec == Init /\ [][Next]_vars

\* The calculation runs: every item list, one payment of many amounts, its receipt
NextCalc ==
    \/ CalculateInvoiceTotal(AllItemLists)
    \/ CreateFirstInvoice(AllItemLists)
    \/ ProcessPayment(CalcPaymentCalls, 1)
    \/ GenerateReceipt

SpecCalc == Init /\ [][NextCalc]_vars

\* The query runs: an invoice, payments in sequence, and the two queries on them
NextQuery ==
    \/ CreateFirstInvoice(CoreItemLists)
    \/ ProcessPayment(QueryPaymentCalls, MaxPayments)
    \/ CancelInvoice
    \/ ValidatePaymentAmount(AmountInputs)
    \/ CalculateTotalPaid

SpecQuery == Init /\ [][NextQuery]_vars

\* The shared-invoice runs: an invoice, a payment on it, and a second payment given the
\* same invoice value
NextShared ==
    \/ CreateFirstInvoice(CoreItemLists)
    \/ ProcessPayment(QueryPaymentCalls, MaxPayments)
    \/ ProcessPaymentOnSameInvoice(QueryPaymentCalls, MaxPayments)

SpecShared == Init /\ [][NextShared]_vars

\* The number runs: the three generators, the reset and createInvoice, in a process that has issued
\* either no number of a kind yet or HighStart of them
InitNumbers ==
    /\ invoiceCounter \in {0, HighStart}
    /\ receiptCounter \in {0, HighStart}
    /\ paymentCounter \in {0, HighStart}
    /\ invoice = NoInvoice
    /\ payment = NoPayment
    /\ payments = <<>>
    /\ returned = [op |-> "none", threw |-> FALSE]

NextNumbers ==
    \/ GenerateInvoiceNumber
    \/ GenerateReceiptNumber
    \/ GeneratePaymentReference
    \/ ResetCounters
    \/ CreateNumberedInvoice

SpecNumbers == InitNumbers /\ [][NextNumbers]_vars

----------------------------------------------------------------------------
(* Properties *)

\* The last call was op and returned a value
Returned(op) == returned.op = op /\ ~returned.threw

\* The sum of the amounts of the payments of the ledger returned with status COMPLETED
RECURSIVE SumCompleted(_)
SumCompleted(ledger) ==
    IF ledger = <<>> THEN 0
    ELSE (IF ledger[1].status = "COMPLETED" THEN ledger[1].amount.v ELSE 0)
         + SumCompleted(Tail(ledger))

\* The last call was generateReceipt for a payment processPayment completed, of an
\* amount strictly less than the invoice's total
PartialReceipt ==
    /\ Returned("generateReceipt")
    /\ returned.args.payment.status = "COMPLETED"
    /\ returned.args.payment.amount.v < returned.args.invoice.totalAmount

\* C1: for a partial payment (amount < totalAmount) the receipt's amountAllocated values
\* sum to exactly payment.amount, and every item but the last receives
\* roundToTwoDecimals(lineTotal * amount / totalAmount)
C1_AllocationsSumToPayment ==
    PartialReceipt =>
        LET alloc == returned.value.items
            pay == returned.args.payment
            inv == returned.args.invoice
        IN  /\ jsSum([i \in 1..Len(alloc) |-> alloc[i].amountAllocated]) = pay.amount
            /\ \A i \in 1..(Len(alloc) - 1) :
                    alloc[i].amountAllocated
                        = proportional(inv.items[i].lineTotal, pay.amount, inv.totalAmount)

\* C2: along payments threaded on the invoice held, outstandingAmount equals totalAmount
\* minus the sum of the amounts of the payments returned COMPLETED
C2_OutstandingIsTotalMinusCompleted ==
    invoice # NoInvoice =>
        invoice.outstandingAmount = invoice.totalAmount - SumCompleted(payments)

\* The invoice a call of createInvoice or processPayment returned
ReturnedInvoice ==
    IF returned.op = "createInvoice" THEN returned.value ELSE returned.value.invoice

\* C3 as stated: every invoice createInvoice or processPayment returns, unless it is
\* CANCELLED, has the status deriveStatus gives for its outstanding and total amounts
C3_ReturnedStatusIsDerived ==
    ((Returned("createInvoice") \/ Returned("processPayment"))
        /\ ReturnedInvoice.status # "CANCELLED")
    => ReturnedInvoice.status
            = deriveStatus(ReturnedInvoice.outstandingAmount, ReturnedInvoice.totalAmount)

\* C3 amended: an invoice of createInvoice is PENDING, which is the derived status when
\* its total is positive and is not when its total is zero; the invoice of a successful
\* processPayment has the derived status; a failed processPayment returns the status of
\* its input
C3_StatusDerivedOncePaid ==
    /\ Returned("createInvoice") =>
            /\ returned.value.status = "PENDING"
            /\ returned.value.totalAmount > 0 =>
                    deriveStatus(returned.value.outstandingAmount, returned.value.totalAmount)
                        = "PENDING"
            /\ returned.value.totalAmount = 0 =>
                    deriveStatus(returned.value.outstandingAmount, returned.value.totalAmount)
                        = "PAID"
    /\ (Returned("processPayment") /\ returned.value.success) =>
            returned.value.invoice.status
                = deriveStatus(returned.value.invoice.outstandingAmount,
                               returned.value.invoice.totalAmount)
    /\ (Returned("processPayment") /\ ~returned.value.success) =>
            returned.value.invoice.status = returned.args.invoice.status

\* C3 witness: a payment accepted on an invoice whose items are all free
C3_PaidZeroTotalInvoice ==
    /\ Returned("processPayment")
    /\ returned.value.success
    /\ returned.args.invoice.totalAmount = 0
    /\ returned.args.invoice.status = "PENDING"
    /\ returned.value.invoice.status = "OVERPAID"

\* Every payment of the ledger completed, at least one, and the invoice not cancelled
OnlyCompletedPayments ==
    /\ invoice # NoInvoice
    /\ invoice.status # "CANCELLED"
    /\ payments # <<>>
    /\ \A i \in 1..Len(payments) : payments[i].status = "COMPLETED"

\* C4: after successful payments only, amounts summing to the total give PAID and an
\* outstanding amount of 0, amounts summing to more give OVERPAID and a negative
\* outstanding amount, amounts summing to less give PARTIALLY_PAID
C4_StatusFollowsSumOfPayments ==
    OnlyCompletedPayments =>
        LET paid == SumCompleted(payments)
        IN  /\ paid = invoice.totalAmount =>
                    (invoice.status = "PAID" /\ invoice.outstandingAmount = 0)
            /\ paid > invoice.totalAmount =>
                    (invoice.status = "OVERPAID" /\ invoice.outstandingAmount < 0)
            /\ (0 < paid /\ paid < invoice.totalAmount) =>
                    invoice.status = "PARTIALLY_PAID"

\* C5: processPayment returns a result for every input and never lets an error out
C5_ProcessPaymentNeverThrows ==
    returned.op = "processPayment" => ~returned.threw

\* The inputs C6 lists: an amount that is not positive, not finite or outside the limits,
\* an unrecognized method, an invalid date, an empty invoice id
InvalidPaymentInput(args) ==
    \/ validatePositiveNumber(args.paymentAmount, "Payment amount") # NoError
    \/ validatePaymentAmountLimits(args.paymentAmount) # NoError
    \/ validatePaymentMethod(args.paymentMethod) # NoError
    \/ validateDate(args.paymentDate, "Payment date") # NoError
    \/ validateNonEmptyString(args.invoice.id, "Invoice ID") # NoError

\* C6: on an invalid input processPayment returns success = false, a FAILED payment with
\* the attempted amount and the invoice's id, a non-empty error and the input invoice;
\* success = true comes only with a COMPLETED payment of a positive amount within the
\* limits, bounds included
C6_InvalidInputGivesFailedResult ==
    returned.op = "processPayment" =>
        /\ InvalidPaymentInput(returned.args) =>
                /\ ~returned.threw
                /\ ~returned.value.success
                /\ returned.value.payment.status = "FAILED"
                /\ returned.value.payment.amount = returned.args.paymentAmount
                /\ returned.value.payment.invoiceId = returned.args.invoice.id
                /\ returned.value.error # ""
                /\ returned.value.invoice = returned.args.invoice
        /\ (~returned.threw /\ returned.value.success) =>
                /\ returned.value.payment.status = "COMPLETED"
                /\ isFinite(returned.value.payment.amount)
                /\ returned.value.payment.amount.v > 0
                /\ returned.value.payment.amount.v >= getMinPaymentAmount
                /\ returned.value.payment.amount.v <= getMaxPaymentAmount

\* C7: processPayment on a CANCELLED invoice returns success = false, a FAILED payment and
\* an invoice still CANCELLED with the outstanding amount it had, whatever the other inputs
C7_CancelledInvoiceRejectsPayment ==
    (returned.op = "processPayment" /\ returned.args.invoice.status = "CANCELLED") =>
        /\ ~returned.threw
        /\ ~returned.value.success
        /\ returned.value.payment.status = "FAILED"
        /\ returned.value.invoice.status = "CANCELLED"
        /\ returned.value.invoice.outstandingAmount = returned.args.invoice.outstandingAmount

\* C8: processPayment, updateInvoiceStatus and cloneInvoice return a CANCELLED invoice
\* exactly when they are given one
C8_CancelledIsAbsorbing ==
    /\ Returned("processPayment") =>
            ((returned.value.invoice.status = "CANCELLED")
                <=> (returned.args.invoice.status = "CANCELLED"))
    /\ (Returned("updateInvoiceStatus") \/ Returned("cloneInvoice")) =>
            ((returned.value.status = "CANCELLED")
                <=> (returned.args.invoice.status = "CANCELLED"))

\* C9: processPayment leaves the invoice it is given as it was, and on success returns
\* another object that differs from it in outstandingAmount and status only
C9_InputInvoiceUntouched ==
    returned.op = "processPayment" =>
        /\ returned.argAfter = returned.args.invoice
        /\ (~returned.threw /\ returned.value.success) =>
                /\ returned.value.invoice.ref # returned.args.invoice.ref
                /\ [returned.value.invoice EXCEPT
                        !.ref = returned.args.invoice.ref,
                        !.outstandingAmount = returned.args.invoice.outstandingAmount,
                        !.status = returned.args.invoice.status]
                    = returned.args.invoice

\* C9 witness: a payment accepted, the returned invoice with another outstanding amount
\* and another status than the invoice passed
C9_PaymentApplied ==
    /\ Returned("processPayment")
    /\ returned.value.success
    /\ returned.value.invoice.outstandingAmount # returned.args.invoice.outstandingAmount
    /\ returned.value.invoice.status # returned.args.invoice.status

\* subtotal + totalTax = totalAmount, subtotal the sum of the rounded quantity * unitPrice
\* of the items and totalTax the sum of their tax amounts
TotalsAddUp(totals) ==
    /\ totals.subtotal + totals.totalTax = totals.totalAmount
    /\ totals.subtotal
        = SumSeq([i \in 1..Len(totals.items) |->
                    roundToTwoDecimals(totals.items[i].quantity * totals.items[i].unitPrice,
                                       Den * Den)])
    /\ totals.totalTax = SumSeq([i \in 1..Len(totals.items) |-> totals.items[i].taxAmount])

\* C10: every result of calculateInvoiceTotal and every invoice of createInvoice has
\* subtotal + totalTax = totalAmount, with subtotal and totalTax the sums over the items
C10_SubtotalPlusTaxIsTotal ==
    (Returned("calculateInvoiceTotal") \/ Returned("createInvoice")) => TotalsAddUp(returned.value)

\* C10 witness: totals of several items with tax on them
C10_TaxedTotals ==
    /\ Returned("calculateInvoiceTotal")
    /\ Len(returned.value.items) > 1
    /\ returned.value.totalTax > 0
    /\ returned.value.subtotal > returned.value.totalTax

\* The sum of the amountAllocated values of the receipt returned
AllocatedSum ==
    jsSum([i \in 1..Len(returned.value.items) |-> returned.value.items[i].amountAllocated])

\* The last call was generateReceipt, returning a receipt, for a payment of at least the
\* invoice's total
CoveringReceipt ==
    /\ Returned("generateReceipt")
    /\ coversInvoice(returned.args.payment.amount, returned.args.invoice.totalAmount)

\* C11: when payment.amount >= invoice.totalAmount every item is allocated its lineTotal,
\* the allocations sum to invoice.totalAmount, and their sum differs from totalPaid only
\* when the amount is greater than the total
C11_FullAllocationWhenCovered ==
    CoveringReceipt =>
        LET inv == returned.args.invoice
            pay == returned.args.payment
        IN  /\ Len(returned.value.items) = Len(inv.items)
            /\ \A i \in 1..Len(inv.items) :
                    returned.value.items[i].amountAllocated = Fin(inv.items[i].lineTotal)
            /\ AllocatedSum = Fin(inv.totalAmount)
            /\ AllocatedSum # returned.value.totalPaid =>
                    (pay.amount.k = "inf" \/ pay.amount.v > inv.totalAmount)

\* C11 witness: a receipt for a completed payment of exactly the total of several items
C11_ExactPaymentReceipt ==
    /\ CoveringReceipt
    /\ returned.args.payment.status = "COMPLETED"
    /\ returned.args.payment.amount = Fin(returned.args.invoice.totalAmount)
    /\ Len(returned.args.invoice.items) > 1
    /\ AllocatedSum = returned.value.totalPaid

\* The last call was generateReceipt, returning a receipt, for a payment of more than the
\* invoice's total
OverpaymentReceipt ==
    /\ Returned("generateReceipt")
    /\ \/ returned.args.payment.amount.k = "inf"
       \/ /\ isFinite(returned.args.payment.amount)
          /\ returned.args.payment.amount.v > returned.args.invoice.totalAmount

\* C12 as the spec words it: for amount > totalAmount the allocations sum to more than
\* payment.amount
C12_OverpaymentOverAllocates ==
    OverpaymentReceipt =>
        /\ isFinite(returned.args.payment.amount)
        /\ AllocatedSum.v > returned.args.payment.amount.v

\* C12 amended: for amount > totalAmount the allocations sum to invoice.totalAmount, which
\* is less than payment.amount; the sum of allocations never exceeds the amount paid
C12_OverpaymentUnderAllocates ==
    OverpaymentReceipt =>
        /\ AllocatedSum = Fin(returned.args.invoice.totalAmount)
        /\ \/ returned.args.payment.amount.k = "inf"
           \/ AllocatedSum.v < returned.args.payment.amount.v

\* C12 witness: a receipt for a completed payment of more than the total of an invoice
\* with tax on its items
C12_OverpaidReceipt ==
    /\ OverpaymentReceipt
    /\ returned.args.payment.status = "COMPLETED"
    /\ returned.args.invoice.totalTax > 0
    /\ returned.args.invoice.status = "OVERPAID"

\* The ordinary validation of generateReceipt fails: the payment's id or the invoice's id
\* is empty, or the payment's date is invalid
ReceiptInputInvalid(pay, inv) ==
    \/ Trim(pay.id) = ""
    \/ Trim(inv.id) = ""
    \/ pay.paymentDate # ValidDate

\* C13: generateReceipt throws whenever payment.invoiceId differs from invoice.id, and the
\* error of the mismatch (a plain Error) is told apart from the ValidationError thrown
\* for an empty payment id, an empty invoice id or an invalid date
C13_MismatchIsItsOwnError ==
    returned.op = "generateReceipt" =>
        LET pay == returned.args.payment
            inv == returned.args.invoice
        IN  /\ pay.invoiceId # inv.id => returned.threw
            /\ ReceiptInputInvalid(pay, inv)
                <=> (returned.threw /\ returned.error.name = "ValidationError")
            /\ (~ReceiptInputInvalid(pay, inv) /\ pay.invoiceId # inv.id)
                <=> (returned.threw /\ returned.error.name = "Error")

\* C13 witness: a receipt asked for a payment and another invoice than the one it paid
C13_ReceiptForAnotherInvoice ==
    /\ returned.op = "generateReceipt"
    /\ returned.threw
    /\ returned.error = Error("Payment invoice ID does not match provided invoice")
    /\ returned.args.payment.status = "COMPLETED"
    /\ returned.args.payment.invoiceId # ""
    /\ returned.args.invoice.id # ""

\* C14: a receipt has totalPaid = payment.amount, receiptDate = payment.paymentDate and
\* remainingBalance = the outstandingAmount of the invoice given; for the payment and the
\* invoice of one successful processPayment, remainingBalance is the outstanding amount
\* before the payment (the total, the payment being the first) minus totalPaid
C14_ReceiptReportsPaymentAndBalance ==
    Returned("generateReceipt") =>
        LET pay == returned.args.payment
            inv == returned.args.invoice
        IN  /\ returned.value.totalPaid = pay.amount
            /\ returned.value.receiptDate = pay.paymentDate
            /\ returned.value.remainingBalance = inv.outstandingAmount
            /\ (pay.status = "COMPLETED" /\ inv = invoice /\ Len(payments) = 1) =>
                    returned.value.remainingBalance
                        = inv.totalAmount - returned.value.totalPaid.v

\* The generator calls, the prefix of each kind, and the counter of each kind in a record
\* of the three
Generators == {"generateInvoiceNumber", "generateReceiptNumber", "generatePaymentReference"}
PrefixOf(op) ==
    IF op = "generateInvoiceNumber" THEN "INV"
    ELSE IF op = "generateReceiptNumber" THEN "RCP" ELSE "PAY"
OwnCounter(op, counters) ==
    IF op = "generateInvoiceNumber" THEN counters.invoiceCounter
    ELSE IF op = "generateReceiptNumber" THEN counters.receiptCounter
    ELSE counters.paymentCounter

\* The counters as they are
Counters ==
    [invoiceCounter |-> invoiceCounter, receiptCounter |-> receiptCounter,
     paymentCounter |-> paymentCounter]

\* The text of a number up to its sequence field
NumberHead == PrefixOf(returned.op) \o "-" \o formatDateForReference(returned.args.date).value \o "-"

\* C15: a call of a generator advances the counter of its kind by one and leaves the other
\* two; the number issued carries the advanced counter (so the numbers of a kind increase
\* and differ), as a field of four digits, 0001 when the counter was 0
C15_CountersPerKind ==
    returned.op \in Generators =>
        /\ OwnCounter(returned.op, Counters) = OwnCounter(returned.op, returned.before) + 1
        /\ \A op \in Generators \ {returned.op} :
                OwnCounter(op, Counters) = OwnCounter(op, returned.before)
        /\ ~returned.threw =>
                /\ returned.value
                    = NumberHead \o padStart(ToString(OwnCounter(returned.op, Counters)), 4, "0")
                /\ Len(returned.value) = Len(NumberHead) + 4
                /\ OwnCounter(returned.op, returned.before) = 0 =>
                        returned.value = NumberHead \o "0001"

\* The amount is one C16 lists: non-positive, not finite, below the configured minimum or
\* above the configured maximum
AmountRejected(a) ==
    \/ ~isFinite(a)
    \/ a.v <= 0
    \/ a.v < Cents(MIN_PAYMENT_AMOUNT)
    \/ a.v > Cents(MAX_PAYMENT_AMOUNT)

\* What validatePaymentAmount returned for the amount and the invoice it was given
AdviceAsClaimed ==
    Returned("validatePaymentAmount") =>
        LET a == returned.args.paymentAmount
            inv == returned.args.invoice
        IN  /\ returned.value.valid <=> ~AmountRejected(a)
            /\ AmountRejected(a) => returned.value.message # <<>>
            /\ ~AmountRejected(a) =>
                    /\ a.v > inv.outstandingAmount =>
                            /\ Len(returned.value.message) = 7
                            /\ returned.value.message[5]
                                = "). This will result in an overpayment of "
                    /\ a.v <= inv.outstandingAmount => returned.value.message = <<>>

\* C16: validatePaymentAmount changes no state; it returns valid = false with a message
\* iff the amount is non-positive, not finite or outside the limits, and otherwise
\* valid = true, with a message (of the overpayment) iff amount > outstandingAmount
C16_AdviceOnAmount ==
    /\ []AdviceAsClaimed
    /\ [][(/\ returned'.op = "validatePaymentAmount"
            /\ (returned.op # "validatePaymentAmount" \/ returned'.args # returned.args)) =>
            UNCHANGED <<invoiceCounter, receiptCounter, paymentCounter, invoice, payment,
                        payments>>]_vars

\* C16 witness: an amount within the limits found valid, with the overpayment message,
\* for an invoice partly paid
C16_OverpaymentAdvised ==
    /\ Returned("validatePaymentAmount")
    /\ returned.args.invoice.status = "PARTIALLY_PAID"
    /\ returned.value.valid
    /\ returned.value.message # <<>>
    /\ returned.args.paymentAmount.v < Cents(MAX_PAYMENT_AMOUNT)

\* C17: calculateTotalPaid(payments) is the rounded sum of the amounts of the COMPLETED
\* payments only, so for the payments collected from a threaded sequence of processPayment
\* calls, with or without payments of another status among them, it equals totalAmount
\* minus the final outstandingAmount
C17_TotalPaidIsTotalMinusOutstanding ==
    Returned("calculateTotalPaid") =>
        /\ returned.value = roundToTwoDecimals(SumCompleted(returned.args.payments), Den)
        /\ returned.value = invoice.totalAmount - invoice.outstandingAmount

\* The last call was calculateInvoiceTotal or createInvoice, whether it returned or threw
CalledTotals == returned.op \in {"calculateInvoiceTotal", "createInvoice"}

\* The items or the tax rate are among those C18 lists
InputRejected(items, taxRate) ==
    \/ items = <<>>
    \/ \E i \in 1..Len(items) :
            \/ Trim(items[i].description) = ""
            \/ items[i].quantity.k = "fin" /\ items[i].quantity.v <= 0
            \/ items[i].unitPrice.k = "fin" /\ items[i].unitPrice.v < 0
    \/ taxRate.k = "fin" /\ (taxRate.v < 0 \/ taxRate.v > Den)

\* Every item is free of charge and valid otherwise, and the tax rate is in [0,1]
FreeOfCharge(items, taxRate) ==
    /\ items # <<>>
    /\ \A i \in 1..Len(items) :
            /\ Trim(items[i].description) # ""
            /\ items[i].quantity.k = "fin" /\ items[i].quantity.v > 0
            /\ items[i].unitPrice = Fin(0)
    /\ taxRate.k = "fin" /\ taxRate.v >= 0 /\ taxRate.v <= Den

\* C18: calculateInvoiceTotal and createInvoice fail with ValidationError and give no
\* invoice when the items are empty, a description is empty after trimming, a quantity is
\* <= 0, a unitPrice is < 0 or the taxRate is outside [0,1]; a unitPrice of 0 is accepted
\* and gives lineTotal 0 and taxAmount 0 for the item
C18_InvalidItemsRejected ==
    CalledTotals =>
        LET items == returned.args.items
            taxRate == returned.args.taxRate
        IN  /\ InputRejected(items, taxRate) =>
                    /\ returned.threw
                    /\ returned.error.name = "ValidationError"
                    /\ returned.value = (IF returned.op = "createInvoice" THEN NoInvoice ELSE <<>>)
                    /\ returned.op = "createInvoice" => invoice = NoInvoice /\ invoiceCounter = 0
            /\ (/\ FreeOfCharge(items, taxRate)
                /\ returned.op = "createInvoice" => returned.args.invoiceDate = ValidDate)
                    => ~returned.threw
            /\ ~returned.threw =>
                    \A i \in 1..Len(items) :
                        items[i].unitPrice = Fin(0) =>
                            /\ returned.value.items[i].lineTotal = 0
                            /\ returned.value.items[i].taxAmount = 0

\* C18 witness: createInvoice refused an item of quantity 0 that is valid otherwise
C18_ZeroQuantityRefused ==
    /\ returned.op = "createInvoice"
    /\ returned.threw
    /\ returned.args.invoiceDate = ValidDate
    /\ returned.args.taxRate = Fin(0)
    /\ \E i \in 1..Len(returned.args.items) : returned.args.items[i].quantity = Fin(0)
    /\ \A i \in 1..Len(returned.args.items) :
            /\ Trim(returned.args.items[i].description) # ""
            /\ returned.args.items[i].unitPrice = Fin(Cents(1))

\* The items and the tax rate pass every check but those of the two limits
WithinChecks(items, taxRate) ==
    /\ items # <<>>
    /\ \A i \in 1..Len(items) :
            /\ Trim(items[i].description) # ""
            /\ items[i].quantity.k = "fin" /\ items[i].quantity.v > 0
            /\ items[i].unitPrice.k = "fin" /\ items[i].unitPrice.v >= 0
    /\ taxRate.k = "fin" /\ taxRate.v >= 0 /\ taxRate.v <= Den

\* Some item's pre-tax line subtotal is above the maximum line-item amount
LineOverLimit(items) ==
    \E i \in 1..Len(items) :
        roundToTwoDecimals(items[i].quantity.v * items[i].unitPrice.v, Den * Den)
            > Cents(MAX_LINE_ITEM_AMOUNT)

\* The total of the items: each rounded line subtotal with its rounded tax
RECURSIVE TotalOfLines(_, _)
TotalOfLines(items, taxRate) ==
    IF items = <<>> THEN 0
    ELSE LET lineSubtotal == roundToTwoDecimals(items[1].quantity.v * items[1].unitPrice.v, Den * Den)
         IN  lineSubtotal + roundToTwoDecimals(lineSubtotal * taxRate.v, Den * Den)
                + TotalOfLines(Tail(items), taxRate)

\* C19: every invoice calculateInvoiceTotal or createInvoice returns has each item's
\* pre-tax line subtotal <= the maximum line-item amount and totalAmount <= the maximum
\* invoice amount; an input over either limit fails with ValidationError, and one exactly
\* at a limit is accepted
C19_LimitsOfLineAndInvoice ==
    CalledTotals =>
        LET items == returned.args.items
            taxRate == returned.args.taxRate
            dated == returned.op = "createInvoice" => returned.args.invoiceDate = ValidDate
        IN  /\ ~returned.threw =>
                    /\ ~LineOverLimit(items)
                    /\ returned.value.totalAmount <= Cents(MAX_INVOICE_AMOUNT)
            /\ (WithinChecks(items, taxRate) /\ dated) =>
                    /\ returned.threw <=> (\/ LineOverLimit(items)
                                           \/ TotalOfLines(items, taxRate) > Cents(MAX_INVOICE_AMOUNT))
                    /\ returned.threw => returned.error.name = "ValidationError"

\* C19 witness: an invoice returned with a line subtotal equal to the maximum line-item
\* amount and a total equal to the maximum invoice amount
C19_InvoiceAtBothLimits ==
    /\ Returned("createInvoice")
    /\ \E i \in 1..Len(returned.value.items) :
            returned.value.items[i].quantity * returned.value.items[i].unitPrice
                = Cents(MAX_LINE_ITEM_AMOUNT) * Den
    /\ returned.value.totalAmount = Cents(MAX_INVOICE_AMOUNT)

\* A step that is a call of createInvoice
CreateInvoiceStep ==
    /\ returned'.op = "createInvoice"
    /\ \/ returned.op # "createInvoice"
       \/ returned'.args # returned.args
       \/ invoiceCounter' # invoiceCounter

\* C20: every invoice createInvoice returns has outstandingAmount = totalAmount and status
\* PENDING, and creating it consumes exactly one invoice sequence number: the invoice
\* counter advances by one, the number of the invoice carries it, the other counters stay
C20_NewInvoiceIsPendingAndNumbered ==
    [][(CreateInvoiceStep /\ ~returned'.threw) =>
            /\ returned'.value.outstandingAmount = returned'.value.totalAmount
            /\ returned'.value.status = "PENDING"
            /\ invoice' = returned'.value
            /\ invoiceCounter' = invoiceCounter + 1
            /\ UNCHANGED <<receiptCounter, paymentCounter>>
            /\ returned'.value.invoiceNumber
                = "INV-" \o formatDateForReference(returned'.args.invoiceDate).value \o "-"
                    \o padStart(ToString(invoiceCounter + 1), 4, "0")]_vars

\* C20 witness: the second invoice of a run returned, of a total above zero, after a
\* receipt number was issued
C20_SecondInvoiceCreated ==
    /\ Returned("createInvoice")
    /\ invoiceCounter = 2
    /\ receiptCounter = 1
    /\ returned.value.totalAmount > 0
    /\ returned.value.status = "PENDING"

\* num/den rounded to two decimals, a tie rounded away from zero
RECURSIVE roundHalfAwayFromZero(_, _)
roundHalfAwayFromZero(num, den) ==
    IF num >= 0 THEN Cents((200 * num + den) \div (2 * den))
    ELSE 0 - roundHalfAwayFromZero(0 - num, den)

\* C21: roundToTwoDecimals rounds to two decimals with ties away from zero, negative
\* values included: the outstanding amount a successful processPayment returns is the
\* difference of the outstanding amount and the payment rounded so
C21_TiesAwayFromZero ==
    (Returned("processPayment") /\ returned.value.success) =>
        returned.value.invoice.outstandingAmount
            = roundHalfAwayFromZero(
                returned.args.invoice.outstandingAmount - returned.args.paymentAmount.v, Den)

\* A step that is a call of op which failed: it threw, or it is processPayment and returned
\* success = false
FailedCall(op) ==
    /\ returned'.op = op
    /\ returned'.threw \/ (op = "processPayment" /\ ~returned'.value.success)
    /\ \/ returned.op # op
       \/ returned'.args # returned.args
       \/ <<invoiceCounter, receiptCounter, paymentCounter>>'
            # <<invoiceCounter, receiptCounter, paymentCounter>>

\* C22: a call of createInvoice, processPayment or generateReceipt that fails changes no
\* invoice and none of the three counters
C22_FailureLeavesStateUntouched ==
    [][(\E op \in {"createInvoice", "processPayment", "generateReceipt"} : FailedCall(op)) =>
            UNCHANGED <<invoice, invoiceCounter, receiptCounter, paymentCounter>>]_vars

\* The last call was the second of two processPayment calls given the same invoice
\* value, and both returned success
TwoPaymentsOnSameInvoice ==
    /\ Returned("processPayment")
    /\ "first" \in DOMAIN returned
    /\ returned.value.success

\* C23: two processPayment calls given the same invoice value both succeed with COMPLETED
\* payments, and each returned invoice has outstandingAmount = the original outstanding
\* amount minus its own amount only, so no returned invoice reflects both payments
C23_EachResultReflectsOwnPaymentOnly ==
    /\ (Returned("processPayment") /\ "first" \in DOMAIN returned
            /\ paymentError(returned.args.invoice, returned.args.paymentAmount,
                            returned.args.paymentMethod, returned.args.paymentDate) = NoError)
        => returned.value.success
    /\ TwoPaymentsOnSameInvoice =>
        LET original == returned.args.invoice.outstandingAmount
        IN  /\ returned.first.payment.status = "COMPLETED"
            /\ returned.value.payment.status = "COMPLETED"
            /\ returned.first.invoice.outstandingAmount
                = original - returned.first.payment.amount.v
            /\ returned.value.invoice.outstandingAmount
                = original - returned.value.payment.amount.v

\* C24: for every valid input of calculateInvoiceTotal, totalTax is subtotal * taxRate
\* rounded to two decimals: the sum of the rounded taxes of the lines is the tax of the
\* subtotal
C24_TotalTaxIsTaxOfSubtotal ==
    Returned("calculateInvoiceTotal") =>
        returned.value.totalTax
            = roundToTwoDecimals(returned.value.subtotal * returned.args.taxRate.v, Den * Den)

\* The sum of the taxes of the lines, each the rounded product of the rounded line
\* subtotal and the tax rate
RECURSIVE SumOfLineTaxes(_, _)
SumOfLineTaxes(items, taxRate) ==
    IF items = <<>> THEN 0
    ELSE roundToTwoDecimals(
            roundToTwoDecimals(items[1].quantity.v * items[1].unitPrice.v, Den * Den) * taxRate.v,
            Den * Den)
         + SumOfLineTaxes(Tail(items), taxRate)

\* The distance of a and b
Distance(a, b) == IF a >= b THEN a - b ELSE b - a

\* C24 amended: totalTax is the sum of the rounded taxes of the lines; it is the tax of the
\* subtotal for a single line, and within half a cent per line of subtotal * taxRate
C24_TotalTaxIsSumOfLineTaxes ==
    Returned("calculateInvoiceTotal") =>
        LET items == returned.args.items
            taxRate == returned.args.taxRate
        IN  /\ returned.value.totalTax = SumOfLineTaxes(items, taxRate)
            /\ Len(items) = 1 =>
                    returned.value.totalTax
                        = roundToTwoDecimals(returned.value.subtotal * taxRate.v, Den * Den)
            /\ 2 * Distance(returned.value.totalTax * Den, returned.value.subtotal * taxRate.v)
                    <= Len(items) * Cents(1) * Den

\* C24 witness: totals returned for several lines whose rounded taxes add up to more than
\* the tax of the subtotal
C24_LineTaxesRoundedUp ==
    /\ Returned("calculateInvoiceTotal")
    /\ Len(returned.args.items) > 1
    /\ returned.value.totalTax
            > roundToTwoDecimals(returned.value.subtotal * returned.args.taxRate.v, Den * Den)

\* The last call was generateReceipt, returning a receipt, for a payment processPayment
\* completed
CompletedReceipt ==
    /\ Returned("generateReceipt")
    /\ returned.args.payment.status = "COMPLETED"

\* C25: in a receipt for a COMPLETED payment no item's amountAllocated exceeds
\* payment.amount, for a partial payment and for a full or over payment
C25_NoItemAboveThePayment ==
    CompletedReceipt =>
        \A i \in 1..Len(returned.value.items) :
            /\ isFinite(returned.value.items[i].amountAllocated)
            /\ returned.value.items[i].amountAllocated.v <= returned.args.payment.amount.v

\* C26: in a receipt for a COMPLETED payment every item's amountAllocated is >= 0, the
\* last item with the rounding remainder included
C26_NoNegativeAllocation ==
    CompletedReceipt =>
        \A i \in 1..Len(returned.value.items) :
            /\ isFinite(returned.value.items[i].amountAllocated)
            /\ returned.value.items[i].amountAllocated.v >= 0

\* C27: in a receipt for a COMPLETED partial payment (amount < totalAmount) no item's
\* amountAllocated exceeds the item's lineTotal, the last item with the remainder included
C27_NoItemAboveItsLineTotal ==
    PartialReceipt =>
        \A i \in 1..Len(returned.value.items) :
            /\ isFinite(returned.value.items[i].amountAllocated)
            /\ returned.value.items[i].amountAllocated.v
                    <= returned.args.invoice.items[i].lineTotal

\* A step that is a successful processPayment call on the invoice held, whose result the
\* caller keeps
SuccessfulPaymentStep ==
    /\ paymentCounter' # paymentCounter
    /\ returned'.op = "processPayment"
    /\ ~returned'.threw
    /\ returned'.value.success
    /\ returned'.args.invoice = invoice
    /\ invoice' = returned'.value.invoice

\* The place of a status in the order PENDING, PARTIALLY_PAID, PAID, OVERPAID
StatusRank(status) ==
    IF status = "PENDING" THEN 0
    ELSE IF status = "PARTIALLY_PAID" THEN 1
    ELSE IF status = "PAID" THEN 2
    ELSE IF status = "OVERPAID" THEN 3
    ELSE 4

PaymentOnOpenInvoice ==
    /\ returned.op = "processPayment"
    /\ returned.args.invoice.status # "CANCELLED"
    /\ Trim(returned.args.invoice.id) # ""
    /\ returned.args.paymentMethod \in PaymentMethod
    /\ returned.args.paymentDate = ValidDate

\* C29: for an invoice that is not CANCELLED and has a non-empty id, a recognized payment
\* method and a valid date, processPayment(invoice, a, method, date) returns success = true
\* iff validatePaymentAmount(invoice, a).valid is true
C29_AdviceAgreesWithPayment ==
    PaymentOnOpenInvoice =>
        /\ ~returned.threw
        /\ returned.value.success
            <=> validatePaymentAmount(returned.args.invoice, returned.args.paymentAmount).valid

\* C29 witness: a payment above the configured maximum refused on an open invoice
C29_PaymentAboveMaximumRefused ==
    /\ PaymentOnOpenInvoice
    /\ ~returned.threw
    /\ ~returned.value.success
    /\ isFinite(returned.args.paymentAmount)
    /\ returned.args.paymentAmount.v > Cents(MAX_PAYMENT_AMOUNT)
    /\ returned.args.invoice.status = "PARTIALLY_PAID"

\* C30: generateReceipt returns a receipt only for a payment whose status is COMPLETED;
\* given the FAILED payment of an unsuccessful processPayment call and its invoice, it fails
C30_ReceiptOnlyForCompletedPayment ==
    returned.op = "generateReceipt" =>
        (returned.args.payment.status # "COMPLETED" => returned.threw)

====
